---- MODULE Spec2Model ----
(***************************************************************************)
(* namegen: weighted name lists (src/src/lib.rs).                          *)
(*                                                                         *)
(* WeightedNameList<S, W> owns a Vec of names and a WeightedAliasIndex<W>  *)
(* built from a Vec of weights; WeightedFullNameList owns two such lists.  *)
(* The weight type W is modelled as a signed 32-bit integer (an            *)
(* AliasableWeight type that admits negative values); names are strings.   *)
(* The alias index built at lib.rs:30 and sampled at lib.rs:38 is the      *)
(* rand_distr 0.4 Walker alias table, modelled step by step.               *)
(*                                                                         *)
(* Options are sequences of length 0 (None) or 1 (Some): `list`, `full`.   *)
(* A panic ends the call that raised it and produces no value; the model   *)
(* records which one it was in `panic`.                                    *)
(***************************************************************************)
EXTENDS Integers, Sequences, FiniteSets

VARIABLES
    list,         \* the WeightedNameList produced by the last constructor call, if any
    full,         \* the WeightedFullNameList produced by WeightedFullNameList::new, if any
    input,        \* the names and weights handed to the last constructor call
    op,           \* the public operation that ran last
    panic,        \* "none", or the panic that ended the last operation
    result,       \* the names returned by the last sample call (<<>> when none)
    drawn,        \* the indices returned by the alias index in the last sample call
    rng_log,      \* the values the last call drew from the RNG, in draw order
    build_calls   \* calls of WeightedAliasIndex::new made by the last operation

vars == <<list, full, input, op, panic, result, drawn, rng_log, build_calls>>

(***************************************************************************)
(* Bounds of the model.                                                    *)
(***************************************************************************)
MaxLen == 3        \* longest names / weights vector handed to a constructor
MaxWeight == 2     \* largest weight handed to a constructor
MaxFullLen == 2    \* longest vector of a list handed to WeightedFullNameList::new

(***************************************************************************)
(* Program constants.                                                      *)
(***************************************************************************)
W_MAX == 2147483647      \* W::MAX of the weight type
\* The empty-list marker of the alias builder. The source uses u32::MAX; TLC
\* integers are 32-bit signed, so the model uses the largest one, which like
\* u32::MAX is an index no vector reaches.
EMPTY_HEAD == 2147483647

Names == {"Foo", "Bar"}
WeightVals == (0 - 1) .. MaxWeight

SeqsUpTo(S, k) == UNION {[1..m -> S] : m \in 0..k}

RECURSIVE Sum(_)
Sum(s) == IF s = <<>> THEN 0 ELSE Head(s) + Sum(Tail(s))

(***************************************************************************)
(* WeightedAliasIndex::new, as called at lib.rs:30.                        *)
(* Vectors of the index are functions on 0..n-1, as in the source.         *)
(***************************************************************************)
PushSmall(a, idx) ==
    [a EXCEPT !.aliases[idx] = a.smalls_head, !.smalls_head = idx]

PushBig(a, idx) ==
    [a EXCEPT !.aliases[idx] = a.bigs_head, !.bigs_head = idx]

PopSmall(a) == [a EXCEPT !.smalls_head = a.aliases[a.smalls_head]]

PopBig(a) == [a EXCEPT !.bigs_head = a.aliases[a.bigs_head]]

SetAlias(a, idx, alias) == [a EXCEPT !.aliases[idx] = alias]

\* Split indices into those with small weights and those with big weights.
RECURSIVE SplitIndices(_, _, _, _, _)
SplitIndices(a, odds, weight_sum, index, n) ==
    IF index = n THEN a
    ELSE SplitIndices(IF odds[index] < weight_sum
                      THEN PushSmall(a, index) ELSE PushBig(a, index),
                      odds, weight_sum, index + 1, n)

\* Pair each small index with a big one until one of the lists is empty.
RECURSIVE BuildAliasMap(_, _, _)
BuildAliasMap(a, odds, weight_sum) ==
    IF a.smalls_head = EMPTY_HEAD \/ a.bigs_head = EMPTY_HEAD
    THEN [a |-> a, odds |-> odds]
    ELSE LET s == a.smalls_head
             a1 == PopSmall(a)
             b == a1.bigs_head
             a2 == SetAlias(PopBig(a1), s, b)
             odds1 == [odds EXCEPT ![b] = odds[b] - weight_sum + odds[s]]
             a3 == IF odds1[b] < weight_sum THEN PushSmall(a2, b) ELSE PushBig(a2, b)
         IN  BuildAliasMap(a3, odds1, weight_sum)

\* The indices left over get no-alias odds of 100%.
RECURSIVE DrainSmalls(_, _, _)
DrainSmalls(a, odds, weight_sum) ==
    IF a.smalls_head = EMPTY_HEAD THEN [a |-> a, odds |-> odds]
    ELSE DrainSmalls(PopSmall(a), [odds EXCEPT ![a.smalls_head] = weight_sum], weight_sum)

RECURSIVE DrainBigs(_, _, _)
DrainBigs(a, odds, weight_sum) ==
    IF a.bigs_head = EMPTY_HEAD THEN [a |-> a, odds |-> odds]
    ELSE DrainBigs(PopBig(a), [odds EXCEPT ![a.bigs_head] = weight_sum], weight_sum)

AliasTable(weights) ==
    LET n == Len(weights)
        weight_sum == Sum(weights)
        odds0 == [i \in 0..(n - 1) |-> weights[i + 1] * n]
        a0 == [aliases |-> [i \in 0..(n - 1) |-> 0],
               smalls_head |-> EMPTY_HEAD, bigs_head |-> EMPTY_HEAD]
        st1 == BuildAliasMap(SplitIndices(a0, odds0, weight_sum, 0, n), odds0, weight_sum)
        st2 == DrainSmalls(st1.a, st1.odds, weight_sum)
        st3 == DrainBigs(st2.a, st2.odds, weight_sum)
    IN  [aliases |-> st3.a.aliases,
         no_alias_odds |-> st3.odds,
         n |-> n,
         weight_sum |-> weight_sum]

\* Result<WeightedAliasIndex, WeightedError>
AliasNew(weights) ==
    LET n == Len(weights) IN
    IF n = 0 THEN [err |-> "NoItem", index |-> <<>>]
    ELSE IF \E i \in 1..n : ~(0 <= weights[i] /\ weights[i] <= W_MAX \div n)
    THEN [err |-> "InvalidWeight", index |-> <<>>]
    ELSE IF Sum(weights) = 0 THEN [err |-> "AllWeightsZero", index |-> <<>>]
    ELSE [err |-> "none", index |-> <<AliasTable(weights)>>]

\* WeightedAliasIndex::sample: candidate from Uniform(0, n), u from Uniform(0, weight_sum)
AliasSample(index, candidate, u) ==
    IF u < index.no_alias_odds[candidate] THEN candidate ELSE index.aliases[candidate]

(***************************************************************************)
(* WeightedNameList                                                        *)
(***************************************************************************)
\* Variant of new that keeps the index whatever its weights are, leaving the
\* rejection of the weights to a later call.
NewResultUnchecked(names, weights) ==
    IF Len(weights) = 0
    THEN [panic |-> "NoItem", list |-> <<>>, build_calls |-> 1]
    ELSE [panic |-> "none",
          list |-> <<[names |-> names, weights |-> AliasTable(weights)]>>,
          build_calls |-> 1]

\* WeightedNameList::new: the alias index is built and unwrapped.
NewResult(names, weights) ==
    LET r == AliasNew(weights) IN
    [panic |-> r.err,
     list |-> IF r.err = "none"
              THEN <<[names |-> names, weights |-> r.index[1]]>> ELSE <<>>,
     build_calls |-> 1]

\* From<Vec<(R, W)>>: the pairs are split into two vectors, then new.
UnzipNames(value) == [i \in 1..Len(value) |-> value[i][1]]
UnzipWeights(value) == [i \in 1..Len(value) |-> value[i][2]]

FromVecResult(value) == NewResult(UnzipNames(value), UnzipWeights(value))

\* Variant of the conversion without the length comparison.
FromPairNoCheck(names, weights) == NewResult(names, weights)

\* Variant of the conversion with the length comparison inverted (== for !=).
FromPairInverted(names, weights) ==
    IF Len(names) = Len(weights)
    THEN [panic |-> "LengthMismatch", list |-> <<>>, build_calls |-> 0]
    ELSE NewResult(names, weights)

\* From<(Vec<R>, Vec<W>)>: lengths are compared first, then new.
FromPairResult(names, weights) ==
    IF Len(names) # Len(weights)
    THEN [panic |-> "LengthMismatch", list |-> <<>>, build_calls |-> 0]
    ELSE NewResult(names, weights)

\* Variant of sample that answers an index without a name by a placeholder.
NameListSampleDefault(l, candidate, u) ==
    LET i == AliasSample(l.weights, candidate, u) IN
    [panic |-> "none",
     result |-> IF i < Len(l.names) THEN <<l.names[i + 1]>> ELSE <<"">>,
     drawn |-> <<i>>]

\* WeightedNameList::sample: &self.names[self.weights.sample(rng)]
NameListSample(l, candidate, u) ==
    LET i == AliasSample(l.weights, candidate, u) IN
    IF i < Len(l.names)
    THEN [panic |-> "none", result |-> <<l.names[i + 1]>>, drawn |-> <<i>>]
    ELSE [panic |-> "IndexOutOfBounds", result |-> <<>>, drawn |-> <<i>>]

\* The two RNG draws of one alias sample, in the order they are made.
Draws(who, candidate, u) ==
    << [of |-> who, dist |-> "uniform_index", value |-> candidate],
       [of |-> who, dist |-> "uniform_within_weight_sum", value |-> u] >>

\* The state left by a constructor call. The model follows one value from its
\* construction on (the constructors run from the initial state only: they read
\* nothing of the state before them). A panic is fatal and ends the run.
Construct(name, in, r) ==
    /\ op' = name
    /\ input' = <<in>>
    /\ list' = r.list
    /\ panic' = r.panic
    /\ build_calls' = r.build_calls
    /\ result' = <<>>
    /\ drawn' = <<>>
    /\ rng_log' = <<>>
    /\ UNCHANGED full

New ==
    /\ op = "init"
    /\ \E names \in SeqsUpTo(Names, MaxLen), weights \in SeqsUpTo(WeightVals, MaxLen) :
        Construct("new", [names |-> names, weights |-> weights], NewResult(names, weights))

FromVec ==
    /\ op = "init"
    /\ \E value \in SeqsUpTo(Names \X WeightVals, MaxLen) :
        Construct("from_vec",
                  [names |-> UnzipNames(value), weights |-> UnzipWeights(value)],
                  FromVecResult(value))

FromPair ==
    /\ op = "init"
    /\ \E names \in SeqsUpTo(Names, MaxLen), weights \in SeqsUpTo(WeightVals, MaxLen) :
        Construct("from_pair", [names |-> names, weights |-> weights],
                  FromPairResult(names, weights))

Sample ==
    /\ panic = "none"
    /\ list # <<>>
    /\ \E candidate \in 0..(list[1].weights.n - 1),
          u \in 0..(list[1].weights.weight_sum - 1) :
          LET r == NameListSample(list[1], candidate, u) IN
          /\ op' = "sample"
          /\ panic' = r.panic
          /\ result' = r.result
          /\ drawn' = r.drawn
          /\ rng_log' = Draws("names", candidate, u)
          /\ build_calls' = 0
    /\ UNCHANGED <<list, full, input>>

Init ==
    /\ list = <<>>
    /\ full = <<>>
    /\ input = <<>>
    /\ op = "init"
    /\ panic = "none"
    /\ result = <<>>
    /\ drawn = <<>>
    /\ rng_log = <<>>
    /\ build_calls = 0

Next == New \/ FromVec \/ FromPair \/ Sample

Spec == Init /\ [][Next]_vars

(***************************************************************************)
(* WeightedFullNameList                                                    *)
(***************************************************************************)
\* The lists WeightedNameList::new hands out for vectors of at most k entries.
BuiltLists(k) ==
    {NewResult(names, weights).list[1] :
        <<names, weights>> \in
            {nw \in SeqsUpTo(Names, k) \X SeqsUpTo(WeightVals, k) :
                NewResult(nw[1], nw[2]).panic = "none"}}

\* WeightedFullNameList::new: Self { given_names, family_names }
FullNewResult(given_names, family_names) ==
    [given_names |-> given_names, family_names |-> family_names]

\* WeightedFullNameList::sample:
\*   (self.given_names.sample(rng), self.family_names.sample(rng))
\* The tuple's fields are evaluated left to right; a panic in the first ends the call.
FullSampleResult(f, c1, u1, c2, u2) ==
    LET g == NameListSample(f.given_names, c1, u1)
        h == NameListSample(f.family_names, c2, u2)
    IN  IF g.panic # "none"
        THEN [panic |-> g.panic, result |-> <<>>, drawn |-> g.drawn,
              rng_log |-> Draws("given_names", c1, u1)]
        ELSE IF h.panic # "none"
        THEN [panic |-> h.panic, result |-> <<>>, drawn |-> g.drawn \o h.drawn,
              rng_log |-> Draws("given_names", c1, u1) \o Draws("family_names", c2, u2)]
        ELSE [panic |-> "none", result |-> g.result \o h.result,
              drawn |-> g.drawn \o h.drawn,
              rng_log |-> Draws("given_names", c1, u1) \o Draws("family_names", c2, u2)]

FullNew ==
    /\ op = "init"
    /\ \E given_names \in BuiltLists(MaxFullLen), family_names \in BuiltLists(MaxFullLen) :
          full' = <<FullNewResult(given_names, family_names)>>
    /\ op' = "full_new"
    /\ UNCHANGED <<list, input, panic, result, drawn, rng_log, build_calls>>

FullSample ==
    /\ panic = "none"
    /\ full # <<>>
    /\ \E c1 \in 0..(full[1].given_names.weights.n - 1),
          u1 \in 0..(full[1].given_names.weights.weight_sum - 1),
          c2 \in 0..(full[1].family_names.weights.n - 1),
          u2 \in 0..(full[1].family_names.weights.weight_sum - 1) :
          LET r == FullSampleResult(full[1], c1, u1, c2, u2) IN
          /\ op' = "full_sample"
          /\ panic' = r.panic
          /\ result' = r.result
          /\ drawn' = r.drawn
          /\ rng_log' = r.rng_log
    /\ UNCHANGED <<list, full, input, build_calls>>

NextFull == FullNew \/ FullSample

SpecFull == Init /\ [][NextFull]_vars

(***************************************************************************)
(* Properties                                                              *)
(***************************************************************************)
Constructors == {"new", "from_vec", "from_pair"}

Range(s) == {s[i] : i \in 1..Len(s)}

\* The equally likely RNG outcomes of one draw from l: the bucket, then the
\* value compared with the bucket's no-alias odds.
Outcomes(l) == (0..(l.weights.n - 1)) \X (0..(l.weights.weight_sum - 1))

\* The outcomes on which a sample call on l returns, having drawn index i.
Returns(l, i) ==
    {o \in Outcomes(l) :
        LET r == NameListSample(l, o[1], o[2]) IN r.panic = "none" /\ r.drawn = <<i>>}

\* C1 (as claimed): for every list that was built, with supplied weights w of
\* sum S > 0, sample returns the name at index i on a share of exactly w[i] / S
\* of the equally likely RNG outcomes, for every index i of the weights.
C1_ExactDistribution ==
    list # <<>> =>
        LET l == list[1]
            w == input[1].weights
            S == Sum(w)
        IN  /\ S > 0
            /\ \A i \in 0..(Len(w) - 1) :
                  /\ Cardinality(Returns(l, i)) * S = w[i + 1] * Cardinality(Outcomes(l))
                  /\ \A o \in Returns(l, i) :
                        NameListSample(l, o[1], o[2]).result = <<l.names[i + 1]>>

\* C2 (as claimed): a zero-weight entry is never returned, and a list holding a
\* zero-weight entry and a positive-weight entry (no weight negative) is built
\* without error and samples without error.
HasZeroAndPositiveEntry(names, weights) ==
    /\ \A i \in 1..Len(weights) : weights[i] >= 0
    /\ \E i, j \in 1..Len(names) :
          /\ i <= Len(weights) /\ j <= Len(weights)
          /\ weights[i] = 0 /\ weights[j] > 0

C2_ZeroWeightExcluded ==
    /\ (op = "sample" /\ panic = "none") => input[1].weights[drawn[1] + 1] # 0
    /\ (/\ op \in Constructors
        /\ panic # "LengthMismatch"
        /\ HasZeroAndPositiveEntry(input[1].names, input[1].weights))
          => (panic = "none" /\ list # <<>>)
    /\ (op = "sample" /\ HasZeroAndPositiveEntry(input[1].names, input[1].weights))
          => panic = "none"

\* C3 (as claimed): a sample call on a built list never panics and returns one
\* of the names stored in the list.
C3_SampleNeverFails ==
    op = "sample" =>
        /\ panic = "none"
        /\ Len(result) = 1
        /\ result[1] \in Range(list[1].names)

\* C4: the pair conversion fails on every input whose lengths differ, and it
\* fails before the sampler build is reached, whatever the weights are.
C4_LengthCheckedFirst ==
    (op = "from_pair" /\ Len(input[1].names) # Len(input[1].weights)) =>
        /\ panic = "LengthMismatch"
        /\ list = <<>>
        /\ build_calls = 0

\* C4 witness: a pair of different lengths whose weights the sampler build
\* would have accepted, rejected without a build.
C4_Witness ==
    /\ op = "from_pair"
    /\ Len(input[1].names) # Len(input[1].weights)
    /\ AliasNew(input[1].weights).err = "none"
    /\ panic = "LengthMismatch"

\* C5 (as claimed): the pair conversion succeeds for every pair of sequences of
\* the same length k >= 0.
C5_EqualLengthSucceeds ==
    (op = "from_pair" /\ Len(input[1].names) = Len(input[1].weights)) =>
        (panic = "none" /\ list # <<>>)

\* C5 (amended): for a pair of sequences of the same length k, the conversion
\* succeeds exactly when k >= 1, every weight lies in 0 .. W::MAX / k and some
\* weight is positive; for k = 0 it fails.
C5_EqualLengthSucceedsIffValid ==
    (op = "from_pair" /\ Len(input[1].names) = Len(input[1].weights)) =>
        LET w == input[1].weights
            k == Len(w)
        IN  (panic = "none" /\ list # <<>>)
                <=> /\ k >= 1
                    /\ \A i \in 1..k : 0 <= w[i] /\ w[i] <= W_MAX \div k
                    /\ \E i \in 1..k : w[i] > 0

\* C5 witness: the conversion of two empty sequences, which fails.
C5_Witness ==
    /\ op = "from_pair"
    /\ input[1].names = <<>>
    /\ input[1].weights = <<>>
    /\ panic = "NoItem"
    /\ list = <<>>

\* C6: a constructor call whose weights hold a negative weight, or only zero
\* weights, fails at that call and produces no list; no list with such weights
\* exists for a later sample call to fail on.
BadWeights(w) ==
    \/ \E i \in 1..Len(w) : w[i] < 0
    \/ Len(w) >= 1 /\ \A i \in 1..Len(w) : w[i] = 0

C6_InvalidWeightsFailAtBuild ==
    /\ (op \in Constructors /\ BadWeights(input[1].weights))
          => (panic # "none" /\ list = <<>>)
    /\ list # <<>> => ~BadWeights(input[1].weights)

\* C6 witness: new called with a negative weight beside a positive one, ending
\* in a panic at that call.
C6_Witness ==
    /\ op = "new"
    /\ \E i, j \in 1..Len(input[1].weights) :
          input[1].weights[i] < 0 /\ input[1].weights[j] > 0
    /\ panic = "InvalidWeight"
    /\ list = <<>>

\* C7: a sample call on a list without names ends in a panic and returns
\* nothing.
C7_EmptyListSampleFails ==
    (op = "sample" /\ list[1].names = <<>>) => (panic # "none" /\ result = <<>>)

\* C7 witness: a list without names was built (new does not compare the
\* lengths) and a sample call on it panicked.
C7_Witness ==
    /\ op = "sample"
    /\ list[1].names = <<>>
    /\ panic = "IndexOutOfBounds"

\* C8 (as claimed): every call of WeightedFullNameList::sample makes exactly one
\* draw on given_names, then exactly one on family_names, on the same RNG
\* stream, and returns the pair (given, family); the family name is the one the
\* family list alone yields for the RNG values its draw consumed.
C8_GivenThenFamily ==
    op = "full_sample" =>
        /\ Len(rng_log) = 4
        /\ rng_log[1].of = "given_names" /\ rng_log[2].of = "given_names"
        /\ rng_log[3].of = "family_names" /\ rng_log[4].of = "family_names"
        /\ Len(result) = 2
        /\ result[1] \in Range(full[1].given_names.names)
        /\ <<result[2]>> =
              NameListSample(full[1].family_names, rng_log[3].value, rng_log[4].value).result

\* C10 (as claimed): every built list holds as many names as its sampler holds
\* weights, and they are the names and weights supplied, index by index.
C10_NamesMatchWeights ==
    list # <<>> =>
        /\ Len(list[1].names) = list[1].weights.n
        /\ list[1].names = input[1].names
        /\ list[1].weights.n = Len(input[1].weights)

====
